---- MODULE Spec2Model ----
(***************************************************************************)
(* Model of python/gitlab.py: the lazy walk of a GitLab group hierarchy    *)
(* (walk_subgroups, walk_projects, walk_group_and_projects), the three     *)
(* membership commands built on it, the group callback and                 *)
(* download_artifacts.                                                     *)
(*                                                                         *)
(* A Python generator is modelled by the sequence of effects its full      *)
(* consumption performs, in evaluation order: remote fetches, yields,      *)
(* prints.  `for x in gen: body` replaces every yield of gen by body(x)    *)
(* (Consume), which is exactly the pull-based interleaving of the          *)
(* interpreter.  A command is executed one remote fetch at a time; every   *)
(* fetch may fail, and the exception then unwinds the whole command.       *)
(***************************************************************************)
EXTENDS Integers, Sequences, FiniteSets

\* ------------------------------------------------------------- bounds
NumGroups == 3
NumProjects == 2
NumMembers == 2
MaxMemberships == 2
PageSize == 1
MaxJobs == 2

\* ------------------------------------------------------------- state
VARIABLES
    subgroups,           \* remote: group id -> its subgroup listing (ids)
    projects,            \* remote: group id -> its project listing (ids)
    members,             \* remote: node -> its explicit member listing
    jobs,                \* remote: the project's jobs, newest first
    cmd,                 \* the command invoked
    group_id,            \* --group-id (None when not given)
    only_explicit,       \* --only-explicit
    job_name,            \* download-artifacts JOB_NAME
    program,             \* the effects the invocation performs when nothing fails
    pos,                 \* position of the command in them (0: not yet started)
    log,                 \* fetches issued, items yielded, rows printed so far
    project_per_member,  \* walk_project_per_member's accumulator
    written,             \* artifacts.zip: None or the job whose artifacts it holds
    err                  \* the exception that ended the command, or "none"

vars == <<subgroups, projects, members, jobs, cmd, group_id, only_explicit,
          job_name, program, pos, log, project_per_member, written, err>>

None == 0
Groups == 1..NumGroups
Projects == 1..NumProjects
MemberIds == 1..NumMembers

GroupNode(g) == [kind |-> "group", id |-> g]
ProjectNode(p) == [kind |-> "project", id |-> p]
NoNode == [kind |-> "none", id |-> 0]
Nodes == {GroupNode(g) : g \in Groups} \cup {ProjectNode(p) : p \in Projects}

\* ------------------------------------------------------ strings, sorting
\* Strings are sequences of character codes, compared as Python compares str.
RECURSIVE StrLess(_, _)
StrLess(a, b) ==
    IF b = <<>> THEN FALSE
    ELSE IF a = <<>> THEN TRUE
    ELSE IF Head(a) # Head(b) THEN Head(a) < Head(b)
    ELSE StrLess(Tail(a), Tail(b))

\* sorted(pairs, key=first component): a stable sort, as Python's sorted.
RECURSIVE InsertByKey(_, _)
InsertByKey(x, s) ==
    IF s = <<>> THEN <<x>>
    ELSE IF StrLess(x[1], Head(s)[1]) THEN <<x>> \o s
    ELSE <<Head(s)>> \o InsertByKey(x, Tail(s))

RECURSIVE SortedByKey(_)
SortedByKey(s) ==
    IF s = <<>> THEN <<>>
    ELSE InsertByKey(s[Len(s)], SortedByKey(SubSeq(s, 1, Len(s) - 1)))

Range(s) == {s[i] : i \in DOMAIN s}

RECURSIVE Flatten(_)
Flatten(ss) == IF ss = <<>> THEN <<>> ELSE Head(ss) \o Flatten(Tail(ss))

\* ------------------------------------------------------- remote objects
\* name attribute of a group or project ("g1", "p8", "p7", ...: the projects'
\* names sort against their ids).
NodeName(n) ==
    IF n.kind = "group" THEN <<103, 48 + n.id>> ELSE <<112, 48 + ((9 - n.id) % 10)>>

\* A member object: members 1 and 3 share a display name, not a username.
Member(i) == [id |-> i, name |-> <<65 + (i % 2)>>, username |-> <<117, 48 + i>>]

\* What members.all(all=True) lists for a node: its explicit members and the
\* members inherited from the groups above it, in id order.
RECURSIVE InheritedIds(_)
InheritedIds(n) ==
    LET parents == IF n.kind = "project"
                   THEN {GroupNode(g) : g \in {h \in Groups : \E i \in DOMAIN projects[h] : projects[h][i] = n.id}}
                   ELSE {GroupNode(g) : g \in {h \in Groups : \E i \in DOMAIN subgroups[h] : subgroups[h][i] = n.id}}
    IN {members[n][i].id : i \in DOMAIN members[n]}
       \cup UNION {InheritedIds(p) : p \in parents}

RECURSIVE SetToSeq(_)
SetToSeq(S) ==
    IF S = {} THEN <<>>
    ELSE LET m == CHOOSE x \in S : \A y \in S : x <= y
         IN <<m>> \o SetToSeq(S \ {m})

AllMembers(n) ==
    LET ids == SetToSeq(InheritedIds(n))
    IN [i \in DOMAIN ids |-> Member(ids[i])]

\* ------------------------------------------------------------- effects
Fetch(op, node, page) == [t |-> "fetch", op |-> op, node |-> node, arg |-> page, ok |-> TRUE]
Yield(node) == [t |-> "yield", op |-> "", node |-> node, arg |-> 0, ok |-> TRUE]
Emit(what, node, arg) == [t |-> "print", op |-> what, node |-> node, arg |-> arg, ok |-> TRUE]
Add(node, member) == [t |-> "add", op |-> "", node |-> node, arg |-> member, ok |-> TRUE]
Raise(exc) == [t |-> "raise", op |-> exc, node |-> NoNode, arg |-> 0, ok |-> TRUE]
Index == [t |-> "index", op |-> "", node |-> NoNode, arg |-> 0, ok |-> TRUE]
Write(job) == [t |-> "write", op |-> "", node |-> NoNode, arg |-> job, ok |-> TRUE]

\* `for x in manager.list(as_list=False): body[x]`: the first page is fetched
\* by list(), each further page when the items of the page before it are used up.
ForListed(op, node, listing, body) ==
    IF listing = <<>> THEN <<Fetch(op, node, 1)>>
    ELSE Flatten([i \in DOMAIN listing |->
             (IF (i - 1) % PageSize = 0
              THEN <<Fetch(op, node, ((i - 1) \div PageSize) + 1)>>
              ELSE <<>>)
             \o body[listing[i]]])

\* `for x in gen: body[x]`: gen's effects, each yield replaced by the body's.
Consume(gen, body) ==
    Flatten([i \in DOMAIN gen |->
        IF gen[i].t = "yield" THEN body[gen[i].node] ELSE <<gen[i]>>])

\* `for x in gen: body[x]` at the top of a command: as Consume, and the item
\* the loop received stays on record.
ForEach(gen, body) ==
    Flatten([i \in DOMAIN gen |->
        IF gen[i].t = "yield" THEN <<gen[i]>> \o body[gen[i].node] ELSE <<gen[i]>>])

Yields(gen) ==
    LET ys == SelectSeq(gen, LAMBDA e : e.t = "yield")
    IN [i \in DOMAIN ys |-> ys[i].node]


\* ------------------------------------------------------------ the walks
RECURSIVE walk_subgroups(_)
\* Faulty variant: the group is yielded after its subgroups
walk_subgroups_post_order(grp) ==
    ForListed("subgroups.list", GroupNode(grp), subgroups[grp],
              [sub \in Range(subgroups[grp]) |->
                  <<Fetch("groups.get", GroupNode(sub), 0)>> \o walk_subgroups(sub)])
    \o <<Yield(GroupNode(grp))>>

walk_subgroups(grp) ==
    <<Yield(GroupNode(grp))>>
    \o ForListed("subgroups.list", GroupNode(grp), subgroups[grp],
                 [sub \in Range(subgroups[grp]) |->
                     <<Fetch("groups.get", GroupNode(sub), 0)>> \o walk_subgroups(sub)])

\* Faulty variant: projects.list() without as_list=False: the first page only
ListProjects_first_page(grp) ==
    ForListed("projects.list", grp,
              SubSeq(projects[grp.id], 1,
                     IF Len(projects[grp.id]) < PageSize THEN Len(projects[grp.id]) ELSE PageSize),
              [p \in Range(projects[grp.id]) |->
                  <<Fetch("projects.get", ProjectNode(p), 0), Yield(ProjectNode(p))>>])

\* `for project in group.projects.list(as_list=False):
\*      yield config.gitlab.api.projects.get(project.id)`
ListProjects(grp) ==
    ForListed("projects.list", grp, projects[grp.id],
              [p \in Range(projects[grp.id]) |->
                  <<Fetch("projects.get", ProjectNode(p), 0), Yield(ProjectNode(p))>>])

walk_projects(grp) ==
    Consume(walk_subgroups(grp), [g \in {GroupNode(x) : x \in Groups} |-> ListProjects(g)])

\* Faulty variant: the group is yielded after its projects
walk_group_and_projects_group_last(grp) ==
    Consume(walk_subgroups(grp),
            [g \in {GroupNode(x) : x \in Groups} |-> ListProjects(g) \o <<Yield(g)>>])

walk_group_and_projects(grp) ==
    Consume(walk_subgroups(grp),
            [g \in {GroupNode(x) : x \in Groups} |-> <<Yield(g)>> \o ListProjects(g)])

\* ------------------------------------------------------- group callback
\* Faulty variant: the group is fetched before the id is looked at
group_check_late ==
    <<Fetch("groups.get", GroupNode(group_id), 0)>>
    \o (IF group_id = None THEN <<Raise("UsageError")>> ELSE <<>>)

group ==
    IF group_id = None
    THEN <<Raise("UsageError")>>
    ELSE <<Fetch("groups.get", GroupNode(group_id), 0)>>

\* ------------------------------------------------------------- commands
sort_members(ms) ==
    LET sorted == SortedByKey([i \in DOMAIN ms |-> <<ms[i].name, ms[i]>>])
    IN [i \in DOMAIN sorted |-> sorted[i][2]]

\* tp.echo(user.id, user.name) for each user
EchoMembers(node, ms) == [i \in DOMAIN ms |-> Emit("row", node, <<ms[i].id, ms[i].name>>)]

\* list(listing) or sorted(listing): every page is fetched before anything else
FetchAll(op, node, listing) == ForListed(op, node, listing, [m \in Range(listing) |-> <<>>])

\* lines 96-103
ExplicitSection(project) ==
    FetchAll("members.list", project, members[project])
    \o (IF members[project] # <<>>
        THEN <<Emit("explicit", project, <<>>), Emit("table", project, <<>>)>>
             \o EchoMembers(project, sort_members(members[project]))
        ELSE <<Emit("no_explicit", project, <<>>)>>)

\* lines 104-108
ImplicitSection(project) ==
    IF ~only_explicit
    THEN <<Emit("implicit", project, <<>>), Emit("table", project, <<>>)>>
         \o FetchAll("members.all", project, AllMembers(project))
         \o EchoMembers(project, sort_members(AllMembers(project)))
    ELSE <<>>

\* Faulty variant: only the projects of the walk get a section
walk_members_item_projects_only(project) ==
    IF project.kind = "project"
    THEN <<Emit("project", project, <<>>)>> \o ExplicitSection(project) \o ImplicitSection(project)
    ELSE <<>>

\* the body of walk_members' loop; its `project` is any item of the walk
walk_members_item(project) ==
    <<Emit("project", project, <<>>)>> \o ExplicitSection(project) \o ImplicitSection(project)

\* Faulty variant: the walk is consumed whole before the first section is printed
walk_members_eager ==
    LET walk == walk_group_and_projects(group_id)
        items == Yields(walk)
    IN walk \o Flatten([i \in DOMAIN items |-> walk_members_item(items[i])])

walk_members ==
    ForEach(walk_group_and_projects(group_id), [n \in Nodes |-> walk_members_item(n)])

MemberKey(member) == member.name \o <<32, 40>> \o member.username \o <<41>>

walk_project_per_member_item(project) ==
    ForListed("members.list", project, members[project],
              [m \in Range(members[project]) |-> <<Add(project, MemberKey(m))>>])

\* project_per_member[key].append(project) on a defaultdict(list)
DictAppend(d, key, project) ==
    IF \E i \in DOMAIN d : d[i][1] = key
    THEN [i \in DOMAIN d |-> IF d[i][1] = key THEN <<key, Append(d[i][2], project)>> ELSE d[i]]
    ELSE Append(d, <<key, <<project>>>>)

\* Faulty variant: the projects of a member are left in the order of the walk
SortedByName_unsorted(nodes) == nodes

\* sorted(groups, key=lambda group: group.name)
SortedByName(nodes) ==
    LET sorted == SortedByKey([i \in DOMAIN nodes |-> <<NodeName(nodes[i]), nodes[i]>>])
    IN [i \in DOMAIN sorted |-> sorted[i][2]]

\* the printing loop that follows the walk
PrintIndex(d) ==
    LET items == SortedByKey(d)
    IN Flatten([i \in DOMAIN items |->
           <<Emit("member", NoNode, items[i][1])>>
           \o Flatten([j \in DOMAIN items[i][2] |->
                  LET grp == SortedByName(items[i][2])[j]
                  IN <<Emit("table", grp, <<>>), Emit("row", grp, NodeName(grp))>>])])

walk_project_per_member ==
    ForEach(walk_group_and_projects(group_id),
            [n \in Nodes |-> walk_project_per_member_item(n)])
    \o <<Index>>

walk_project_members_item(project) ==
    <<Emit("project", project, <<>>),
      Emit("explicit", project, <<>>), Emit("table", project, <<>>)>>
    \o ForListed("members.list", project, members[project],
                 [m \in Range(members[project]) |-> <<Emit("row", project, <<m.id, m.name>>)>>])
    \o (IF ~only_explicit
        THEN <<Emit("implicit", project, <<>>), Emit("table", project, <<>>)>>
             \o ForListed("members.all", project, AllMembers(project),
                          [m \in Range(AllMembers(project)) |->
                              <<Emit("row", project, <<m.id, m.name>>)>>])
        ELSE <<>>)

walk_project_members ==
    ForEach(walk_projects(group_id), [n \in Nodes |-> walk_project_members_item(n)])


\* --------------------------------------------------- download_artifacts
JobNode(j) == [kind |-> "job", id |-> j]

\* project.jobs.list(as_list=False, scope=["success"]): the server filters
SuccessJobs == SelectSeq(jobs, LAMBDA j : j.status = "success")

\* next(job for job in ... if job.name == job_name): the listing is consumed up
\* to the first match; without one the generator ends and next() raises
\* StopIteration.
download_artifacts ==
    LET listing == SuccessJobs
        hits == {i \in DOMAIN listing : listing[i].name = job_name}
        first == CHOOSE i \in hits : \A k \in hits : i <= k
    IN <<Fetch("projects.get", ProjectNode(1), 0)>>
       \o (IF hits = {}
           THEN FetchAll("jobs.list", ProjectNode(1), listing) \o <<Raise("StopIteration")>>
           ELSE FetchAll("jobs.list", ProjectNode(1), SubSeq(listing, 1, first))
                \o <<Fetch("job.artifacts", JobNode(listing[first].id), 0),
                     Write(listing[first].id)>>)

\* ------------------------------------------------------------ execution
WalkCommands == {"walk_members", "walk_project_per_member", "walk_project_members"}
Walkers == {"walk_subgroups", "walk_projects", "walk_group_and_projects"}

\* The effects of the whole invocation.  The walkers are run as
\* `for item in walker(root): pass` on the root the group callback fetched.
Program ==
    CASE cmd = "download_artifacts" -> download_artifacts
      [] group_id = None -> group
      [] cmd = "walk_members" -> group \o walk_members
      [] cmd = "walk_project_per_member" -> group \o walk_project_per_member
      [] cmd = "walk_project_members" -> group \o walk_project_members
      [] cmd = "walk_subgroups" -> group \o walk_subgroups(group_id)
      [] cmd = "walk_projects" -> group \o walk_projects(group_id)
      [] cmd = "walk_group_and_projects" -> group \o walk_group_and_projects(group_id)

LocalEffects == {"yield", "print", "add"}

\* where the code that runs from position p on reaches its next remote call
RECURSIVE RunEnd(_, _)
RunEnd(prog, p) ==
    IF p > Len(prog) \/ prog[p].t \notin LocalEffects THEN p ELSE RunEnd(prog, p + 1)

RECURSIVE Accumulate(_, _)
Accumulate(d, run) ==
    IF run = <<>> THEN d
    ELSE Accumulate(IF Head(run).t = "add" THEN DictAppend(d, Head(run).arg, Head(run).node) ELSE d,
                    Tail(run))

Visible(run) == SelectSeq(run, LAMBDA e : e.t # "add")

Running == err = "none" /\ pos >= 1 /\ pos <= Len(program)
Finished == err = "none" /\ pos >= 1 /\ pos > Len(program)

\* The command line is dispatched: the callbacks and the command are entered.
Invoke ==
    /\ pos = 0
    /\ program' = Program
    /\ pos' = 1
    /\ UNCHANGED <<subgroups, projects, members, jobs, cmd, group_id, only_explicit,
                   job_name, log, project_per_member, written, err>>

\* what a failing remote call raises: a get of an id that does not resolve,
\* a page that does not arrive
Failure(fetch) == IF fetch.arg = 0 THEN "NotFound" ELSE "TransportError"

\* A remote call answers: the code runs on to its next remote call.
FetchOk ==
    /\ Running
    /\ program[pos].t = "fetch"
    /\ LET q == RunEnd(program, pos + 1)
           run == SubSeq(program, pos, q - 1)
       IN /\ log' = log \o Visible(run)
          /\ project_per_member' = Accumulate(project_per_member, run)
          /\ pos' = q
    /\ UNCHANGED <<subgroups, projects, members, jobs, cmd, group_id, only_explicit,
                   job_name, program, written, err>>

\* Faulty variant: the failing call is caught and issued again
FetchFail_retry ==
    /\ Running
    /\ program[pos].t = "fetch"
    /\ Len(log) < 3 * Len(program)
    /\ log' = Append(log, [program[pos] EXCEPT !.ok = FALSE])
    /\ UNCHANGED <<subgroups, projects, members, jobs, cmd, group_id, only_explicit,
                   job_name, program, pos, project_per_member, written, err>>

\* A remote call raises: nothing catches it, the command ends.
FetchFail ==
    /\ Running
    /\ program[pos].t = "fetch"
    /\ err' = Failure(program[pos])
    /\ log' = Append(log, [program[pos] EXCEPT !.ok = FALSE])
    /\ UNCHANGED <<subgroups, projects, members, jobs, cmd, group_id, only_explicit,
                   job_name, program, pos, project_per_member, written>>

\* raise click.UsageError(...) in group; StopIteration out of next()
RaiseError ==
    /\ Running
    /\ program[pos].t = "raise"
    /\ err' = program[pos].op
    /\ UNCHANGED <<subgroups, projects, members, jobs, cmd, group_id, only_explicit,
                   job_name, program, pos, log, project_per_member, written>>

\* walk_project_per_member's printing loop, after the walk
PrintIndexStep ==
    /\ Running
    /\ program[pos].t = "index"
    /\ log' = log \o PrintIndex(project_per_member)
    /\ pos' = pos + 1
    /\ UNCHANGED <<subgroups, projects, members, jobs, cmd, group_id, only_explicit,
                   job_name, program, project_per_member, written, err>>

\* Path("artifacts.zip").write_bytes(...)
WriteArtifacts ==
    /\ Running
    /\ program[pos].t = "write"
    /\ written' = program[pos].arg
    /\ pos' = pos + 1
    /\ UNCHANGED <<subgroups, projects, members, jobs, cmd, group_id, only_explicit,
                   job_name, program, log, project_per_member, err>>

\* ---------------------------------------------------------- the remote
RECURSIVE SubsetsUpTo(_, _)
SubsetsUpTo(S, k) ==
    IF k = 0 THEN {{}}
    ELSE LET smaller == SubsetsUpTo(S, k - 1)
         IN smaller \cup {T \cup {x} : T \in smaller, x \in S}

\* every ordering of every subset of S: what a listing of S may return
RECURSIVE Arrangements(_)
Arrangements(S) ==
    {<<>>} \cup UNION {{<<x>> \o rest : rest \in Arrangements(S \ {x})} : x \in S}

\* Group hierarchies, as group id -> listing: a group lists subgroups of higher
\* id only, so the hierarchy is acyclic; a group may be listed by several groups.
RECURSIVE HierarchiesFrom(_)
HierarchiesFrom(g) ==
    IF g > NumGroups THEN {<<>>}
    ELSE {<<listing>> \o rest :
             listing \in Arrangements((g + 1)..NumGroups), rest \in HierarchiesFrom(g + 1)}

Hierarchies == HierarchiesFrom(1)

\* Every project is owned by one group, which lists its projects by id.
Ownerships ==
    {[g \in Groups |-> SetToSeq({p \in Projects : o[p] = g})] : o \in [Projects -> Groups]}

\* Explicit memberships, at most MaxMemberships of them in all.
Memberships ==
    {[n \in Nodes |-> LET ids == SetToSeq({i \in MemberIds : <<n, i>> \in ms})
                      IN [k \in DOMAIN ids |-> Member(ids[k])]] :
        ms \in SubsetsUpTo(Nodes \X MemberIds, MaxMemberships)}

NoMembers == [n \in Nodes |-> <<>>]

JobNames == {"build", "test"}
RECURSIVE JobLists(_)
JobLists(n) ==
    IF n = 0 THEN {<<>>}
    ELSE LET shorter == JobLists(n - 1)
         IN shorter \cup {Append(js, [id |-> Len(js) + 1, name |-> nm, status |-> st]) :
                             js \in shorter, nm \in JobNames, st \in {"success", "failed"}}

Start ==
    /\ program = <<>>
    /\ pos = 0
    /\ log = <<>>
    /\ project_per_member = <<>>
    /\ written = None
    /\ err = "none"

\* The walkers alone, on every hierarchy.
InitWalk ==
    /\ subgroups \in Hierarchies
    /\ projects \in Ownerships
    /\ members = NoMembers
    /\ jobs = <<>>
    /\ cmd \in Walkers
    /\ group_id \in Groups
    /\ only_explicit = FALSE
    /\ job_name = ""
    /\ Start

\* The group commands are run on the hierarchies of the groups 1 and 2, the
\* projects and members being anywhere in them; the walkers above are run on
\* every hierarchy.  Without a group id the remote is never looked at.
CmdGroups == {1, 2}
CmdHierarchies ==
    {h \in Hierarchies :
        \A g \in Groups : \A i \in DOMAIN h[g] : g \in CmdGroups /\ h[g][i] \in CmdGroups}
CmdOwnerships == {o \in Ownerships : \A g \in Groups \ CmdGroups : o[g] = <<>>}
CmdMemberships ==
    {m \in Memberships : \A g \in Groups \ CmdGroups : m[GroupNode(g)] = <<>>}

Init ==
    /\ \/ /\ group_id = None
          /\ subgroups = [g \in Groups |-> <<>>]
          /\ projects \in CmdOwnerships
          /\ members = NoMembers
       \/ /\ group_id = 1
          /\ subgroups \in CmdHierarchies
          /\ projects \in CmdOwnerships
          /\ members \in CmdMemberships
    /\ jobs = <<>>
    /\ \/ cmd \in {"walk_members", "walk_project_members"} /\ only_explicit \in BOOLEAN
       \/ cmd = "walk_project_per_member" /\ only_explicit = FALSE
    /\ job_name = ""
    /\ Start

InitArtifacts ==
    /\ subgroups = [g \in Groups |-> <<>>]
    /\ projects = [g \in Groups |-> <<>>]
    /\ members = NoMembers
    /\ jobs \in JobLists(MaxJobs)
    /\ cmd = "download_artifacts"
    /\ group_id = None
    /\ only_explicit = FALSE
    /\ job_name \in JobNames
    /\ Start

Next == Invoke \/ FetchOk \/ FetchFail \/ RaiseError \/ PrintIndexStep
NextWalk == Invoke \/ FetchOk \/ FetchFail
NextArtifacts == Invoke \/ FetchOk \/ FetchFail \/ RaiseError \/ WriteArtifacts

Spec == Init /\ [][Next]_vars
SpecWalk == InitWalk /\ [][NextWalk]_vars
SpecArtifacts == InitArtifacts /\ [][NextArtifacts]_vars


\* ============================================================== claims
Fetches == SelectSeq(log, LAMBDA e : e.t = "fetch")
Out == SelectSeq(log, LAMBDA e : e.t = "print")
NodesOf(events) == [i \in DOMAIN events |-> events[i].node]
Yielded == NodesOf(SelectSeq(log, LAMBDA e : e.t = "yield"))
Failed == \E i \in DOMAIN log : ~log[i].ok
Count(seq, x) == Cardinality({i \in DOMAIN seq : seq[i] = x})

RECURSIVE SumOver(_)
SumOver(ns) == IF ns = <<>> THEN 0 ELSE Head(ns) + SumOver(Tail(ns))

\* the number of groups a depth-first walk from g meets, each as often as reached
RECURSIVE SubtreeSize(_)
SubtreeSize(g) ==
    1 + SumOver([i \in DOMAIN subgroups[g] |-> SubtreeSize(subgroups[g][i])])

\* the number of listing paths that lead from group a to group b
RECURSIVE PathCount(_, _)
PathCount(a, b) ==
    IF a = b THEN 1
    ELSE SumOver([i \in DOMAIN subgroups[a] |-> PathCount(subgroups[a][i], b)])

IsTreeFrom(root) == \A g \in Groups : PathCount(root, g) <= 1

\* C1: walk_subgroups(root) yields root first, each group once per path by which
\* it is reachable from root, and depth-first in pre-order: the j-th listed
\* subgroup of a yielded group follows it right after the whole subtrees of the
\* subgroups listed before; in a tree no group comes before any of its ancestors.
C1_PreOrder ==
    (cmd = "walk_subgroups" /\ Finished) =>
        LET ys == [i \in DOMAIN Yielded |-> Yielded[i].id]
        IN /\ \A i \in DOMAIN Yielded : Yielded[i].kind = "group"
           /\ Len(ys) >= 1 /\ ys[1] = group_id
           /\ \A g \in Groups : Count(ys, g) = PathCount(group_id, g)
           /\ \A i \in DOMAIN ys : \A j \in DOMAIN subgroups[ys[i]] :
                 LET before == SumOver([l \in 1..(j - 1) |-> SubtreeSize(subgroups[ys[i]][l])])
                 IN /\ i + 1 + before <= Len(ys)
                    /\ ys[i + 1 + before] = subgroups[ys[i]][j]
           /\ \A i \in DOMAIN ys : i > 1 =>
                 \E j \in 1..(i - 1) : ys[i] \in Range(subgroups[ys[j]])
           /\ IsTreeFrom(group_id) =>
                 \A i \in DOMAIN ys : \A a \in Groups :
                     (a # ys[i] /\ PathCount(group_id, a) > 0 /\ PathCount(a, ys[i]) > 0)
                         => \E j \in 1..(i - 1) : ys[j] = a

\* a finished walk_subgroups of a hierarchy in which a group is reached twice
C1_Witness ==
    /\ cmd = "walk_subgroups" /\ Finished
    /\ Len(Yielded) >= 4
    /\ \E g \in Groups : Count(Yielded, GroupNode(g)) = 2

\* C2: walk_group_and_projects(root) yields as many items as walk_subgroups(root)
\* yields groups plus the projects those groups own.
C2_Count ==
    (cmd = "walk_group_and_projects" /\ Finished) =>
        LET gs == Yields(walk_subgroups(group_id))
        IN Len(Yielded) = Len(gs) + SumOver([i \in DOMAIN gs |-> Len(projects[gs[i].id])])

C2_Witness ==
    /\ cmd = "walk_group_and_projects" /\ Finished
    /\ Cardinality({i \in DOMAIN Yielded : Yielded[i].kind = "group"}) >= 2
    /\ \E g \in Groups : Len(projects[g]) >= 2 /\ Count(Yielded, GroupNode(g)) >= 1

\* the groups of walk_subgroups(root), each followed by the projects it lists
Interleaved(root) ==
    LET gs == Yields(walk_subgroups(root))
    IN Flatten([i \in DOMAIN gs |->
           <<gs[i]>> \o [j \in DOMAIN projects[gs[i].id] |-> ProjectNode(projects[gs[i].id][j])]])

\* C10: walk_group_and_projects(root) is walk_subgroups(root) with each group
\* followed at once by the projects it lists; its groups are walk_subgroups(root),
\* its projects are walk_projects(root), which yields no group; and the nodes got
\* by id are the nodes yielded, one get for each (root's get is the callback's).
C10_Interleaving ==
    /\ (cmd = "walk_group_and_projects" /\ Finished) =>
          /\ Yielded = Interleaved(group_id)
          /\ SelectSeq(Yielded, LAMBDA n : n.kind = "group") = Yields(walk_subgroups(group_id))
          /\ SelectSeq(Yielded, LAMBDA n : n.kind = "project") = Yields(walk_projects(group_id))
    /\ (cmd = "walk_projects" /\ Finished) =>
          /\ Yielded = SelectSeq(Interleaved(group_id), LAMBDA n : n.kind = "project")
          /\ \A i \in DOMAIN Yielded : Yielded[i].kind = "project"
    /\ (cmd \in {"walk_group_and_projects", "walk_subgroups"} /\ Finished) =>
          NodesOf(SelectSeq(Fetches, LAMBDA f : f.op \in {"groups.get", "projects.get"})) = Yielded
    /\ (cmd = "walk_projects" /\ Finished) =>
          NodesOf(SelectSeq(Fetches, LAMBDA f : f.op = "projects.get")) = Yielded

\* a finished walk in which a group lists both a project and a subgroup
C10_Witness ==
    /\ cmd = "walk_group_and_projects" /\ Finished
    /\ Len(Yielded) >= 4
    /\ \E g \in Groups : /\ Count(Yielded, GroupNode(g)) >= 1
                         /\ projects[g] # <<>> /\ subgroups[g] # <<>>


\* --------------------------------------------- the member index, read back
\* the keys printed, in order
KeysPrinted ==
    LET ks == SelectSeq(Out, LAMBDA e : e.op = "member")
    IN [i \in DOMAIN ks |-> ks[i].arg]

\* the nodes printed under the i-th key
RowsUnder(i) ==
    LET at == {k \in DOMAIN Out : Out[k].op = "member"}
        start == CHOOSE k \in at : Cardinality({x \in at : x <= k}) = i
        stop == IF \E k \in at : k > start
                THEN CHOOSE k \in at : k > start /\ \A x \in at : x > start => k <= x
                ELSE Len(Out) + 1
    IN NodesOf(SelectSeq(SubSeq(Out, start + 1, stop - 1), LAMBDA e : e.op = "row"))

\* how often the member with this key is listed as an explicit member of node n
ListedIn(key, n) == Cardinality({i \in DOMAIN members[n] : MemberKey(members[n][i]) = key})

IndexIsSorted ==
    /\ \A i \in DOMAIN KeysPrinted : i > 1 => StrLess(KeysPrinted[i - 1], KeysPrinted[i])
    /\ \A i \in DOMAIN KeysPrinted : \A j \in DOMAIN RowsUnder(i) :
          j > 1 => ~StrLess(NodeName(RowsUnder(i)[j]), NodeName(RowsUnder(i)[j - 1]))

\* C3 (as stated): the index maps each member key to exactly the projects of the
\* walk in which the member is an explicit member, groups contributing nothing,
\* keys sorted, each member's projects sorted by name.
C3_ProjectsOnly ==
    (cmd = "walk_project_per_member" /\ Finished) =>
        /\ IndexIsSorted
        /\ Range(KeysPrinted) =
              UNION {{MemberKey(members[n][i]) : i \in DOMAIN members[n]} :
                        n \in {x \in Range(Yielded) : x.kind = "project"}}
        /\ \A i \in DOMAIN KeysPrinted : \A n \in Nodes :
              Count(RowsUnder(i), n) =
                  IF n.kind = "project" THEN Count(Yielded, n) * ListedIn(KeysPrinted[i], n) ELSE 0

\* C3 (amended): the index maps each member key to exactly the items of the
\* walk, groups and projects alike, in which the member is an explicit member,
\* keys sorted, each member's items sorted by name.
C3_Index ==
    (cmd = "walk_project_per_member" /\ Finished) =>
        /\ IndexIsSorted
        /\ Range(KeysPrinted) =
              UNION {{MemberKey(members[n][i]) : i \in DOMAIN members[n]} : n \in Range(Yielded)}
        /\ \A i \in DOMAIN KeysPrinted : \A n \in Nodes :
              Count(RowsUnder(i), n) = Count(Yielded, n) * ListedIn(KeysPrinted[i], n)

\* a finished index with a member of a group and of a project
C3_Witness ==
    /\ cmd = "walk_project_per_member" /\ Finished
    /\ \E i \in DOMAIN KeysPrinted :
          /\ Len(RowsUnder(i)) = 2
          /\ \E j, k \in DOMAIN RowsUnder(i) :
                RowsUnder(i)[j].kind = "group" /\ RowsUnder(i)[k].kind = "project"

\* C4 (as stated): in walk_members and walk_project_members, a visited project
\* without explicit members gets the "no explicit members" marker right after its
\* header, and no explicit-members table.
C4_NoEmptyTable ==
    cmd \in {"walk_members", "walk_project_members"} =>
        \A i \in DOMAIN Out :
            (/\ Out[i].op = "project"
             /\ Out[i].node.kind = "project"
             /\ members[Out[i].node] = <<>>
             /\ i < Len(Out))
                => Out[i + 1].op = "no_explicit"

\* C5: once a remote fetch has failed the command has ended with the error: the
\* failing step prints nothing, and afterwards nothing is fetched or printed.
C5_FailurePropagates ==
    [][Failed' => /\ err' # "none"
                  /\ Out' = Out
                  /\ \A i \in DOMAIN log' : ~log'[i].ok => i = Len(log')
                  /\ Failed => log' = log]_vars

\* a fetch failed after rows were printed
C5_Witness ==
    /\ Failed /\ err # "none"
    /\ Cardinality({i \in DOMAIN Out : Out[i].op = "row"}) >= 2
    /\ Len(Fetches) >= 4

NoJobMatches == \A i \in DOMAIN SuccessJobs : SuccessJobs[i].name # job_name

\* C6 (as stated): download_artifacts with a job name that no successful job has
\* ends in NotFound and writes nothing.
C6_NotFound ==
    (cmd = "download_artifacts" /\ NoJobMatches) =>
        /\ written = None
        /\ (err # "none" /\ ~Failed) => err = "NotFound"

\* C7: without a group id the group command ends in a usage error with nothing
\* fetched, walked or printed.
C7_UsageError ==
    (cmd \in WalkCommands /\ group_id = None) =>
        /\ log = <<>>
        /\ err \in {"none", "UsageError"}
        /\ (err = "none" /\ pos >= 1) => (pos = 1 /\ program[pos].t = "raise")

C7_Witness == cmd \in WalkCommands /\ group_id = None /\ err = "UsageError"

MemberFetch(e) == e.t = "fetch" /\ e.op \in {"members.list", "members.all"}

\* C8 (as stated): walk_members fetches members and prints a section for the
\* project items only, and fetches the effective listing iff not --only-explicit.
C8_ProjectsOnly ==
    cmd = "walk_members" =>
        /\ \A i \in DOMAIN log :
              (MemberFetch(log[i]) \/ log[i].t = "print") => log[i].node.kind = "project"
        /\ only_explicit => \A i \in DOMAIN log : log[i].op # "members.all"
        /\ (Finished /\ ~only_explicit) =>
              \A n \in Range(Yielded) : n.kind = "project" =>
                  \E i \in DOMAIN log : log[i].op = "members.all" /\ log[i].node = n

\* C8 (amended): walk_members fetches the explicit members of, and prints a
\* section for, every item of walk_group_and_projects, group or project, in the
\* order of the walk; it fetches the effective listing of every item when
\* --only-explicit is not given, and of none when it is.
C8_EveryItem ==
    cmd = "walk_members" =>
        /\ only_explicit => \A i \in DOMAIN log : log[i].op # "members.all"
        /\ Finished =>
              /\ Yielded = Yields(walk_group_and_projects(group_id))
              /\ NodesOf(SelectSeq(log, LAMBDA e : e.op = "members.list" /\ e.arg = 1)) = Yielded
              /\ NodesOf(SelectSeq(log, LAMBDA e : e.op = "project")) = Yielded
              /\ ~only_explicit =>
                    NodesOf(SelectSeq(log, LAMBDA e : e.op = "members.all" /\ e.arg = 1)) = Yielded

\* a finished walk_members over a group and a project, effective members shown
C8_Witness ==
    /\ cmd = "walk_members" /\ Finished /\ ~only_explicit
    /\ \E i, j \in DOMAIN Yielded : Yielded[i].kind = "group" /\ Yielded[j].kind = "project"
    /\ \E i \in DOMAIN log : log[i].op = "members.all" /\ log[i].node.kind = "group"

WalkFetch(e) ==
    e.t = "fetch" /\ e.op \in {"groups.get", "projects.get", "subgroups.list", "projects.list"}

\* C9: in walk_members and walk_project_members every row is printed for the item
\* the walk yielded last, before the walk issues its next fetch; in
\* walk_project_per_member nothing is fetched once anything is printed.
C9_Lazy ==
    /\ cmd \in {"walk_members", "walk_project_members"} =>
          \A i \in DOMAIN log : log[i].t = "print" =>
              \E j \in 1..(i - 1) :
                  /\ log[j].t = "yield" /\ log[j].node = log[i].node
                  /\ \A k \in (j + 1)..(i - 1) : log[k].t # "yield" /\ ~WalkFetch(log[k])
    /\ cmd = "walk_project_per_member" =>
          \A i \in DOMAIN log : log[i].t = "print" =>
              /\ pos > Len(program)
              /\ \A k \in DOMAIN log : log[k].t = "fetch" => k < i

\* two items of a listing have their rows, the second fetched after the first's
C9_Witness ==
    /\ cmd \in {"walk_members", "walk_project_members"} /\ Finished
    /\ \E i \in DOMAIN log :
          /\ log[i].op = "row"
          /\ \E j \in (i + 1)..Len(log) :
                /\ WalkFetch(log[j])
                /\ \E k \in (j + 1)..Len(log) :
                      /\ log[k].t = "yield"
                      /\ \E l \in (k + 1)..Len(log) : log[l].op = "row"

====
